---- MODULE Spec2Model ----
(***************************************************************************)
(* A model of the in-memory inverted index of src/src/main.rs:             *)
(* InvertedIndex { indexes, documents } with new / add / query, and the    *)
(* free functions tokenize and highlight.                                  *)
(*                                                                         *)
(* A Rust String is modelled as a sequence of one-character strings.  The  *)
(* alphabet has a letter in both cases, a second letter, a separator that  *)
(* is also a regular-expression metacharacter, and the group opener.       *)
(* The two ANSI escape sequences written by colored's purple() are single  *)
(* symbols that are not characters of the alphabet.                        *)
(***************************************************************************)
EXTENDS Integers, Sequences, FiniteSets

\* ------------------------------------------------------------------ bounds
\* longest content handed to tokenize / highlight when called directly
MaxLen == 3
\* longest term handed to highlight directly
MaxTermLen == 2
\* cap on the characters added to one index over all add calls
MaxTotal == 4
\* longest term handed to query
MaxQueryLen == 1

\* ---------------------------------------------------------------- alphabet
Letters == {"a", "A", "b"}
Chars == Letters \cup {".", "("}
DocChars == {"a", "A", "."}
QueryChars == {"a", "A", "("}
Ids == {1, 2}

StringsOver(S, n) == UNION {[1..k -> S] : k \in 0..n}

Terms == StringsOver(Chars, MaxTermLen)
Contents == StringsOver(Chars, MaxLen)
DocContents == StringsOver(DocChars, MaxTotal)
QueryTerms == StringsOver(QueryChars, MaxQueryLen)

Range(s) == {s[i] : i \in 1..Len(s)}

\* ------------------------------------------------------- std / char / str
\* char::is_alphanumeric
is_alphanumeric(ch) == ch \in Letters

\* char lowercase mapping used by str::to_lowercase
char_to_lowercase(ch) == IF ch = "A" THEN "a" ELSE ch

\* str::to_lowercase
to_lowercase(s) == [i \in 1..Len(s) |-> char_to_lowercase(s[i])]

\* ---------------------------------------------------------------- tokenize
\* str::split(|ch| !ch.is_alphanumeric()): the pieces between separators,
\* empty pieces included
RECURSIVE split(_)
split(text) ==
    IF \A i \in 1..Len(text) : is_alphanumeric(text[i])
    THEN <<text>>
    ELSE LET i == CHOOSE j \in 1..Len(text) :
                     /\ ~is_alphanumeric(text[j])
                     /\ \A k \in 1..(j-1) : is_alphanumeric(text[k])
         IN <<SubSeq(text, 1, i-1)>> \o split(SubSeq(text, i+1, Len(text)))

is_nonempty(s) == s # <<>>

\* tokenize without the filter on empty pieces
tokenize_unfiltered(text) == split(text)

\* fn tokenize
tokenize(text) == SelectSeq(split(text), is_nonempty)

\* --------------------------------------------------------------- highlight
PURPLE == "ESC[35m"
RESET == "ESC[0m"

\* ColoredString::to_string of text.purple()
purple(text) == <<PURPLE>> \o text \o <<RESET>>

\* format!(r"(?i){}", term)
format_pattern(term) == <<"(", "?", "i", ")">> \o term

\* Regex::new: the parse of a pattern over the alphabet.  A leading "(?i)"
\* sets the case-insensitive flag; any other "(" opens a group, and a group
\* still open at the end of the pattern is a syntax error.
RECURSIVE parse(_, _, _, _)
parse(pat, i, depth, atoms) ==
    IF i > Len(pat)
    THEN [ok |-> depth = 0, atoms |-> atoms]
    ELSE IF pat[i] = "("
    THEN IF i + 3 <= Len(pat) /\ SubSeq(pat, i+1, i+3) = <<"?", "i", ")">>
         THEN parse(pat, i + 4, depth, atoms)
         ELSE parse(pat, i + 1, depth + 1, atoms)
    ELSE parse(pat, i + 1, depth, Append(atoms, pat[i]))

Regex_new(pat) == parse(pat, 1, 0, <<>>)

\* one atom of a compiled (?i) pattern against one character
atom_matches(atom, ch) ==
    IF atom = "." THEN TRUE
    ELSE char_to_lowercase(atom) = char_to_lowercase(ch)

\* the pattern matches content at position p (1-based)
matches_at(atoms, content, p) ==
    /\ p + Len(atoms) - 1 <= Len(content)
    /\ \A k \in 1..Len(atoms) : atom_matches(atoms[k], content[p + k - 1])

\* leftmost match at or after start; 0 when there is none
find_at(atoms, content, start) ==
    LET S == {p \in start..(Len(content) + 1) : matches_at(atoms, content, p)}
    IN IF S = {} THEN 0 ELSE CHOOSE p \in S : \A q \in S : p <= q

\* Regex::find_iter: successive non-overlapping matches <<s, e>> (e exclusive);
\* an empty match ending where the previous match ended is not reported
RECURSIVE find_iter(_, _, _, _)
find_iter(atoms, content, last_end, last_match) ==
    IF last_end > Len(content) + 1 THEN <<>>
    ELSE LET s == find_at(atoms, content, last_end)
             e == s + Len(atoms)
         IN IF s = 0 THEN <<>>
            ELSE IF s = e
            THEN IF e = last_match
                 THEN find_iter(atoms, content, e + 1, last_match)
                 ELSE <<(<<s, e>>)>> \o find_iter(atoms, content, e + 1, e)
            ELSE <<(<<s, e>>)>> \o find_iter(atoms, content, e, e)

\* Regex::replace_all with the closure |caps| caps[0].purple()
RECURSIVE replace_all(_, _, _)
replace_all(content, ms, from) ==
    IF ms = <<>> THEN SubSeq(content, from, Len(content))
    ELSE LET s == Head(ms)[1]
             e == Head(ms)[2]
         IN SubSeq(content, from, s - 1)
              \o purple(SubSeq(content, s, e - 1))
              \o replace_all(content, Tail(ms), e)

\* fn highlight: ok = FALSE is the panic of unwrap() on a pattern error
highlight(term, content) ==
    LET regex == Regex_new(format_pattern(term))
    IN IF ~regex.ok
       THEN [ok |-> FALSE, out |-> <<>>]
       ELSE [ok |-> TRUE,
             out |-> replace_all(content,
                                 find_iter(regex.atoms, content, 1, 0), 1)]

\* ------------------------------------------------------------ InvertedIndex
VARIABLES
    indexes,      \* HashMap<String, Vec<usize>>: term -> postings list
    documents,    \* HashMap<usize, Document>: id -> Document
    added,        \* characters added so far (caps the model)
    tokenCount,   \* history: term -> number of tokens equal to it over all adds
    lastOp,       \* "new", "add" or "query": the last call made
    lastId,       \* id argument of the last add
    lastContent,  \* content argument of the last add
    lastOld,      \* what documents held under lastId before the last add
    lastTerm,     \* term argument of the last query
    result,       \* value returned by the last query
    panicked,     \* the last query panicked
    repeated,     \* the last query repeats the query made just before it
    pTerm,        \* direct call: term argument
    pContent,     \* direct call: text / content argument
    pTokens,      \* direct call: value returned by tokenize(pContent)
    pOut,         \* direct call: value returned by highlight(pTerm, pContent)
    pc            \* direct call: which functions have been applied

ixVars == <<indexes, documents, added, tokenCount, lastOp, lastId, lastContent,
            lastOld, lastTerm, result, panicked, repeated>>
pureVars == <<pTerm, pContent, pTokens, pOut, pc>>
vars == <<ixVars, pureVars>>

\* InvertedIndex::new
new == [indexes |-> <<>>, documents |-> <<>>]

\* push that inserts the id at the front of the postings list
push_front(idx, word, id) ==
    [t \in DOMAIN idx \cup {word} |->
        IF t = word
        THEN <<id>> \o (IF word \in DOMAIN idx THEN idx[word] ELSE <<>>)
        ELSE idx[t]]

\* push that leaves the list alone when it already ends with the id
push_dedup(idx, word, id) ==
    [t \in DOMAIN idx \cup {word} |->
        IF t = word
        THEN LET cur == IF word \in DOMAIN idx THEN idx[word] ELSE <<>>
             IN IF cur # <<>> /\ cur[Len(cur)] = id THEN cur ELSE Append(cur, id)
        ELSE idx[t]]

\* self.indexes.entry(word).or_insert(Vec::new()).push(id)
push(idx, word, id) ==
    [t \in DOMAIN idx \cup {word} |->
        IF t = word
        THEN Append(IF word \in DOMAIN idx THEN idx[word] ELSE <<>>, id)
        ELSE idx[t]]

\* words.iter().for_each(...)
RECURSIVE for_each_push(_, _, _)
for_each_push(idx, words, id) ==
    IF words = <<>> THEN idx
    ELSE for_each_push(push(idx, Head(words), id), Tail(words), id)

\* insert that drops the document
insert_dropped(docs, id, content) == docs

\* insert that stores the lowercased copy of the content
insert_lowercased(docs, id, content) ==
    [d \in DOMAIN docs \cup {id} |->
        IF d = id THEN [id |-> id, content |-> to_lowercase(content)] ELSE docs[d]]

\* self.documents.insert(id, Document { id, content })
insert(docs, id, content) ==
    [d \in DOMAIN docs \cup {id} |->
        IF d = id THEN [id |-> id, content |-> content] ELSE docs[d]]

\* InvertedIndex::add
add(self, id, content) ==
    LET content_lowercase == to_lowercase(content)
        words == tokenize(content_lowercase)
    IN [indexes |-> for_each_push(self.indexes, words, id),
        documents |-> insert(self.documents, id, content)]

\* doc_ids.iter().filter_map(|doc_id| documents.get(doc_id).map(highlight))
RECURSIVE filter_map(_, _, _)
filter_map(doc_ids, docs, term_lowercase) ==
    IF doc_ids = <<>> THEN <<>>
    ELSE LET rest == filter_map(Tail(doc_ids), docs, term_lowercase)
         IN IF Head(doc_ids) \in DOMAIN docs
            THEN <<highlight(term_lowercase, docs[Head(doc_ids)].content)>> \o rest
            ELSE rest

\* query that looks the term up as given, without lowercasing it
query_exact(self, term) ==
    IF term \in DOMAIN self.indexes
    THEN LET hs == filter_map(self.indexes[term], self.documents, term)
         IN IF \E i \in 1..Len(hs) : ~hs[i].ok
            THEN [ok |-> FALSE, out |-> <<>>]
            ELSE [ok |-> TRUE, out |-> [i \in 1..Len(hs) |-> hs[i].out]]
    ELSE [ok |-> TRUE, out |-> <<>>]

\* query that builds the pattern before the lookup
query_eager(self, term) ==
    LET term_lowercase == to_lowercase(term)
    IN IF ~Regex_new(format_pattern(term_lowercase)).ok
       THEN [ok |-> FALSE, out |-> <<>>]
       ELSE IF term_lowercase \in DOMAIN self.indexes
       THEN LET hs == filter_map(self.indexes[term_lowercase], self.documents,
                                 term_lowercase)
            IN [ok |-> TRUE, out |-> [i \in 1..Len(hs) |-> hs[i].out]]
       ELSE [ok |-> TRUE, out |-> <<>>]

\* InvertedIndex::query: ok = FALSE when a highlight call panicked
query(self, term) ==
    LET term_lowercase == to_lowercase(term)
    IN IF term_lowercase \in DOMAIN self.indexes
       THEN LET hs == filter_map(self.indexes[term_lowercase], self.documents,
                                 term_lowercase)
            IN IF \E i \in 1..Len(hs) : ~hs[i].ok
               THEN [ok |-> FALSE, out |-> <<>>]
               ELSE [ok |-> TRUE, out |-> [i \in 1..Len(hs) |-> hs[i].out]]
       ELSE [ok |-> TRUE, out |-> <<>>]

self == [indexes |-> indexes, documents |-> documents]

NoDocument == [some |-> FALSE, content |-> <<>>]

count(words, w) == Cardinality({i \in 1..Len(words) : words[i] = w})

Init ==
    /\ indexes = new.indexes
    /\ documents = new.documents
    /\ added = 0
    /\ tokenCount = <<>>
    /\ lastOp = "new"
    /\ lastId = 0
    /\ lastContent = <<>>
    /\ lastOld = NoDocument
    /\ lastTerm = <<>>
    /\ result = <<>>
    /\ panicked = FALSE
    /\ repeated = FALSE
    /\ pTerm = <<>>
    /\ pContent = <<>>
    /\ pTokens = <<>>
    /\ pOut = [ok |-> TRUE, out |-> <<>>]
    /\ pc = "index"

\* index.add(id, content)
Add(id, content) ==
    /\ pc = "index"
    /\ ~panicked
    /\ added + Len(content) <= MaxTotal
    /\ LET next == add(self, id, content)
           words == tokenize(to_lowercase(content))
       IN /\ indexes' = next.indexes
          /\ documents' = next.documents
          /\ tokenCount' = [t \in DOMAIN tokenCount \cup Range(words) |->
                              (IF t \in DOMAIN tokenCount THEN tokenCount[t] ELSE 0)
                                + count(words, t)]
    /\ added' = added + Len(content)
    /\ lastOp' = "add"
    /\ lastId' = id
    /\ lastContent' = content
    /\ lastOld' = IF id \in DOMAIN documents
                  THEN [some |-> TRUE, content |-> documents[id].content]
                  ELSE NoDocument
    /\ lastTerm' = <<>>
    /\ result' = <<>>
    /\ repeated' = FALSE
    /\ UNCHANGED <<panicked, pureVars>>

\* query through entry(term).or_default(): a lookup that creates the list
QueryInserting(term) ==
    /\ pc = "index"
    /\ ~panicked
    /\ LET r == query(self, term)
       IN /\ result' = r.out
          /\ panicked' = ~r.ok
    /\ indexes' = [t \in DOMAIN indexes \cup {to_lowercase(term)} |->
                     IF t \in DOMAIN indexes THEN indexes[t] ELSE <<>>]
    /\ repeated' = (lastOp = "query" /\ lastTerm = term)
    /\ lastOp' = "query"
    /\ lastTerm' = term
    /\ lastId' = 0
    /\ lastContent' = <<>>
    /\ lastOld' = NoDocument
    /\ UNCHANGED <<documents, added, tokenCount, pureVars>>

\* index.query(term)
Query(term) ==
    /\ pc = "index"
    /\ ~panicked
    /\ LET r == query(self, term)
       IN /\ result' = r.out
          /\ panicked' = ~r.ok
    /\ repeated' = (lastOp = "query" /\ lastTerm = term)
    /\ lastOp' = "query"
    /\ lastTerm' = term
    /\ lastId' = 0
    /\ lastContent' = <<>>
    /\ lastOld' = NoDocument
    /\ UNCHANGED <<indexes, documents, added, tokenCount, pureVars>>

Next ==
    \/ \E id \in Ids, content \in DocContents : Add(id, content)
    \/ \E term \in QueryTerms : Query(term)

Spec == Init /\ [][Next]_vars

\* ------------------------------------------------- the functions on their own
InitPure ==
    /\ indexes = new.indexes
    /\ documents = new.documents
    /\ added = 0
    /\ tokenCount = <<>>
    /\ lastOp = "new"
    /\ lastId = 0
    /\ lastContent = <<>>
    /\ lastOld = NoDocument
    /\ lastTerm = <<>>
    /\ result = <<>>
    /\ panicked = FALSE
    /\ repeated = FALSE
    /\ pTerm \in Terms
    /\ pContent \in Contents
    /\ pTokens = <<>>
    /\ pOut = [ok |-> TRUE, out |-> <<>>]
    /\ pc = "start"

\* tokenize(pContent)
CallTokenize ==
    /\ pc = "start"
    /\ pTokens' = tokenize(pContent)
    /\ pc' = "tokenized"
    /\ UNCHANGED <<ixVars, pTerm, pContent, pOut>>

\* highlight(pTerm, pContent)
CallHighlight ==
    /\ pc = "start"
    /\ pOut' = highlight(pTerm, pContent)
    /\ pc' = "highlighted"
    /\ UNCHANGED <<ixVars, pTerm, pContent, pTokens>>

NextPure == CallTokenize \/ CallHighlight

SpecPure == InitPure /\ [][NextPure]_vars

\* ================================================================ properties
postings(t) == IF t \in DOMAIN indexes THEN indexes[t] ELSE <<>>

tokens_so_far(t) == IF t \in DOMAIN tokenCount THEN tokenCount[t] ELSE 0

IsPrefix(s, t) == Len(s) <= Len(t) /\ SubSeq(t, 1, Len(s)) = s

\* the strings that differ from w in the case of their letters only
CaseVariants(w) == {t \in [1..Len(w) -> Chars] : to_lowercase(t) = to_lowercase(w)}

\* term occurs in content at position p, letter case ignored
occurs_at(term, content, p) ==
    /\ p + Len(term) - 1 <= Len(content)
    /\ \A k \in 1..Len(term) :
          char_to_lowercase(content[p + k - 1]) = char_to_lowercase(term[k])

occurs_in(term, content) ==
    \E p \in 1..(Len(content) + 1) : occurs_at(term, content, p)

\* the leftmost non-overlapping literal occurrences of term, as <<s, e>>
RECURSIVE literal_spans(_, _, _)
literal_spans(term, content, start) ==
    LET S == {p \in start..(Len(content) + 1) : occurs_at(term, content, p)}
    IN IF S = {} THEN <<>>
       ELSE LET p == CHOOSE x \in S : \A y \in S : x <= y
            IN IF term = <<>>
               THEN <<(<<p, p>>)>> \o literal_spans(term, content, p + 1)
               ELSE <<(<<p, p + Len(term)>>)>>
                      \o literal_spans(term, content, p + Len(term))

\* content with exactly the literal occurrences of term marked
literal_highlight(term, content) ==
    replace_all(content, literal_spans(term, content, 1), 1)

\* a highlighted string read back: its text without the markers, the marked
\* spans <<s, e>> in positions of that text, and whether the markers pair up
RECURSIVE scan(_, _, _, _, _)
scan(out, i, text, open, spans) ==
    IF i > Len(out)
    THEN [text |-> text, spans |-> spans, paired |-> open = 0]
    ELSE IF out[i] = PURPLE
    THEN scan(out, i + 1, text, Len(text) + 1, spans)
    ELSE IF out[i] = RESET
    THEN scan(out, i + 1, text, 0, Append(spans, <<open, Len(text) + 1>>))
    ELSE scan(out, i + 1, Append(text, out[i]), open, spans)

unmark(out) == scan(out, 1, <<>>, 0, <<>>)

\* the occurrence of length n at p lies in, or overlaps, a marked span
covered(p, n, spans) ==
    \E k \in 1..Len(spans) :
        IF n = 0 THEN spans[k][1] = p /\ spans[k][2] = p
        ELSE spans[k][1] < p + n /\ p < spans[k][2]

\* the maximal runs of alphanumeric characters of text, as <<first, last>>
Runs(text) ==
    {r \in (1..Len(text)) \X (1..Len(text)) :
        /\ r[1] <= r[2]
        /\ \A k \in r[1]..r[2] : is_alphanumeric(text[k])
        /\ r[1] = 1 \/ ~is_alphanumeric(text[r[1] - 1])
        /\ r[2] = Len(text) \/ ~is_alphanumeric(text[r[2] + 1])}

\* C1: every document id that occurs in a postings list is a key of the
\* document store.
C1_PostingsHaveDocuments ==
    \A t \in DOMAIN indexes : Range(indexes[t]) \subseteq DOMAIN documents

C1_Witness ==
    \E t \in DOMAIN indexes :
        /\ Cardinality(Range(indexes[t])) = 2
        /\ Cardinality(DOMAIN indexes) >= 2

\* C2: postings lists are append-only and insertion-ordered: over every step
\* each term's list before the step is a prefix of its list after it, and an
\* add of id appends nothing but id.
C2_AppendOnly ==
    [][\A t \in DOMAIN indexes :
          /\ t \in DOMAIN indexes'
          /\ IsPrefix(indexes[t], indexes'[t])
          /\ \A i \in (Len(indexes[t]) + 1)..Len(indexes'[t]) :
                lastOp' = "add" /\ indexes'[t][i] = lastId']_vars

\* ids 2 then 1 were added with a shared term, and the query for that term
\* returns the two documents in that order
C2_Witness ==
    /\ lastOp = "query"
    /\ postings(to_lowercase(lastTerm)) = <<2, 1>>
    /\ documents[1].content # documents[2].content
    /\ result = <<highlight(to_lowercase(lastTerm), documents[2].content).out,
                  highlight(to_lowercase(lastTerm), documents[1].content).out>>

\* C3: query is a pure read: a step from one query to the next leaves the
\* postings mapping and the document store unchanged, and with the same term
\* it returns the same result sequence.
C3_QueryIsPureRead ==
    [][lastOp' = "query" =>
          /\ indexes' = indexes
          /\ documents' = documents
          /\ (lastOp = "query" /\ lastTerm' = lastTerm) =>
                (result' = result /\ panicked' = panicked)]_vars

C3_Witness ==
    /\ lastOp = "query"
    /\ repeated
    /\ Len(result) >= 2

\* C4: query returns one highlighted string per entry of the postings list of
\* the lowercased term, in postings order, none skipped; the length of the
\* result is the number of tokens equal to the lowercased term over all adds.
C4_OneResultPerPosting ==
    lastOp = "query" =>
        LET t == to_lowercase(lastTerm)
        IN /\ ~panicked
           /\ Len(result) = tokens_so_far(t)
           /\ Len(result) = Len(postings(t))
           /\ \A i \in 1..Len(postings(t)) :
                 /\ postings(t)[i] \in DOMAIN documents
                 /\ result[i] =
                      highlight(t, documents[postings(t)[i]].content).out

\* a term that occurs twice in one text, added again under the same id
C4_Witness ==
    /\ lastOp = "query"
    /\ Len(result) >= 3
    /\ Cardinality(DOMAIN documents) = 1
    /\ Cardinality(DOMAIN indexes) = 1

\* C5: indexing and lookup are case-insensitive: query terms with the same
\* lowercase form return the same result, and a stored document is returned
\* by the query for each of its words in any casing.
C5_CaseInsensitive ==
    /\ lastOp = "query" =>
          \A t \in CaseVariants(lastTerm) :
              query(self, t) = [ok |-> ~panicked, out |-> result]
    /\ lastOp = "add" =>
          \A i \in 1..Len(tokenize(lastContent)) :
              \A t \in CaseVariants(tokenize(lastContent)[i]) :
                  LET q == query(self, t)
                  IN /\ q.ok
                     /\ \E k \in 1..Len(q.out) :
                           /\ postings(to_lowercase(t))[k] = lastId
                           /\ q.out[k] = highlight(to_lowercase(t), lastContent).out
                           /\ unmark(q.out[k]).spans # <<>>

\* a document holding the word in one case, found by the word in the other
C5_Witness ==
    /\ lastOp = "query"
    /\ lastTerm = <<"A">>
    /\ result # <<>>
    /\ \A d \in DOMAIN documents : "A" \notin Range(documents[d].content)

\* C6: query never panics, and it returns the empty sequence when no add
\* produced the lowercased term as a token.
C6_QueryNeverFails ==
    lastOp = "query" =>
        /\ ~panicked
        /\ tokens_so_far(to_lowercase(lastTerm)) = 0 => result = <<>>

\* a query for the group opener on an index that holds documents
C6_Witness ==
    /\ lastOp = "query"
    /\ "(" \in Range(lastTerm)
    /\ DOMAIN indexes # {}
    /\ ~panicked
    /\ result = <<>>

\* C7: highlight wraps every case-insensitive occurrence of the term, and
\* removing the markers from its output gives the content back.
C7_HighlightWrapsOccurrences ==
    pc = "highlighted" =>
        /\ pOut.ok
        /\ unmark(pOut.out).paired
        /\ unmark(pOut.out).text = pContent
        /\ \A p \in 1..(Len(pContent) + 1) :
              occurs_at(pTerm, pContent, p) =>
                  covered(p, Len(pTerm), unmark(pOut.out).spans)

\* C8: tokenize returns, left to right, exactly the maximal runs of
\* alphanumeric characters of its input.
C8_TokensAreMaximalRuns ==
    pc = "tokenized" =>
        /\ Len(pTokens) = Cardinality(Runs(pContent))
        /\ \A i \in 1..Len(pTokens) :
              /\ pTokens[i] # <<>>
              /\ \A k \in 1..Len(pTokens[i]) : is_alphanumeric(pTokens[i][k])
              /\ \E r \in Runs(pContent) :
                    /\ pTokens[i] = SubSeq(pContent, r[1], r[2])
                    /\ Cardinality({q \in Runs(pContent) : q[1] < r[1]}) = i - 1

\* a leading separator, two words, a trailing or doubled separator
C8_Witness ==
    /\ pc = "tokenized"
    /\ Len(pContent) >= 3
    /\ ~is_alphanumeric(pContent[1])
    /\ ~is_alphanumeric(pContent[Len(pContent)])
    /\ Len(pTokens) = 1

\* the id of a postings entry whose stored text no longer has the term as a word
stale(t, id) ==
    /\ id \in DOMAIN documents
    /\ t \notin Range(tokenize(to_lowercase(documents[id].content)))

\* C9 as stated: after a re-add the store holds the new text as given, the id
\* stays in the postings of every term of the old text, and the query for a
\* term of the old text that is no term of the new text returns the new text
\* with nothing marked.
C9_StaleEntryUnmarked ==
    /\ (lastOp = "add" /\ lastOld.some) =>
          /\ documents[lastId].content = lastContent
          /\ \A w \in Range(tokenize(to_lowercase(lastOld.content))) :
                lastId \in Range(postings(w))
    /\ lastOp = "query" =>
          LET t == to_lowercase(lastTerm)
          IN /\ ~panicked
             /\ Len(result) = Len(postings(t))
             /\ \A i \in 1..Len(postings(t)) :
                   stale(t, postings(t)[i]) =>
                       result[i] = documents[postings(t)[i]].content

\* C9 amended: the query returns the highlight of the new text for the stale
\* entry; nothing is marked when the term does not occur in the new text as a
\* substring either.
C9_StaleEntryHighlighted ==
    /\ (lastOp = "add" /\ lastOld.some) =>
          /\ documents[lastId].content = lastContent
          /\ \A w \in Range(tokenize(to_lowercase(lastOld.content))) :
                lastId \in Range(postings(w))
    /\ lastOp = "query" =>
          LET t == to_lowercase(lastTerm)
          IN /\ ~panicked
             /\ Len(result) = Len(postings(t))
             /\ \A i \in 1..Len(postings(t)) :
                   stale(t, postings(t)[i]) =>
                       LET c == documents[postings(t)[i]].content
                       IN /\ result[i] = highlight(t, c).out
                          /\ unmark(result[i]).text = c
                          /\ ~occurs_in(t, c) => result[i] = c

\* one stale entry answered with the new text unmarked, another with the term
\* marked inside a longer word of the new text
C9_Witness ==
    /\ lastOp = "query"
    /\ LET t == to_lowercase(lastTerm)
       IN \E i, j \in 1..Len(result) :
             /\ stale(t, postings(t)[i])
             /\ result[i] = documents[postings(t)[i]].content
             /\ stale(t, postings(t)[j])
             /\ result[j] # documents[postings(t)[j]].content

\* C10: highlight treats the term as a literal: it does not fail, and it marks
\* exactly the literal case-insensitive occurrences of the term.
C10_HighlightIsLiteral ==
    pc = "highlighted" =>
        /\ pOut.ok
        /\ pOut.out = literal_highlight(pTerm, pContent)

====
